---- MODULE Spec2Model ----
(***************************************************************************)
(* Exam state and evaluation engine of the PDF question generator          *)
(* (src/app.py).                                                           *)
(*                                                                         *)
(* Encodings                                                               *)
(*  - a Python dict is a function from key strings to values; a key the    *)
(*    dict does not carry is outside its DOMAIN;                           *)
(*  - a Python str that the code trims, upper-cases or tests for emptiness *)
(*    is a sequence of one-character strings;                              *)
(*  - marks are fixed-point numbers in tenths of a mark: 3 marks is 30 and *)
(*    1.8 marks is 18;                                                     *)
(*  - a model response text is a sequence of segments: a character, or a   *)
(*    well-formed JSON object taken as a whole, which begins with '{' and  *)
(*    ends with '}'; a text of characters only is decoded character by     *)
(*    character.                                                           *)
(***************************************************************************)
EXTENDS Integers, Sequences, FiniteSets, TLC

\* st.session_state
VARIABLES questions_data, exam_answers, exam_submitted, evaluation_result

\* The last run of the script: the button that was pressed, the answers the
\* form collected, what evaluate_exam_answers returned, what the grading
\* model did, what generate_questions returned and the messages shown.
VARIABLES clicked, form_answers, evaluation, response, questions_text, notice

\* The Generate Questions page in that run: the five counts of the sidebar,
\* whether a pattern file is uploaded, and what the model did on the display
\* call and on the structured call.
VARIABLES distribution, uploaded_pattern, display_response, exam_response

\* The View Results page in that run: the grade it showed and the text it
\* offered for download.
VARIABLES grade_shown, results_text

session == <<questions_data, exam_answers, exam_submitted, evaluation_result>>

run == <<clicked, form_answers, evaluation, response, questions_text, notice>>

generation == <<distribution, uploaded_pattern, display_response, exam_response>>

results == <<grade_shown, results_text>>

vars == <<session, run, generation, results>>

-----------------------------------------------------------------------------
(* Bounds *)

MaxQuestions == 2

MaxEvaluations == 2

\* The text before, and the text after, the core of a response text has up
\* to this many characters.
MaxSurround == 1

\* The stored results the grade is computed for have up to this many tenths
\* of a mark out of 20 marks.
MaxObtained == 220

-----------------------------------------------------------------------------
(* Python values *)

None == [kind |-> "None"]

GetOr(d, k, default) == IF k \in DOMAIN d THEN d[k] ELSE default

Whitespace == {" "}

RECURSIVE LStrip(_)
LStrip(s) ==
    IF s # <<>> /\ Head(s) \in Whitespace THEN LStrip(Tail(s)) ELSE s

RECURSIVE RStrip(_)
RStrip(s) ==
    IF s # <<>> /\ s[Len(s)] \in Whitespace
    THEN RStrip(SubSeq(s, 1, Len(s) - 1))
    ELSE s

Strip(s) == RStrip(LStrip(s))

UpperChar(c) ==
    CASE c = "a" -> "A"
      [] c = "b" -> "B"
      [] c = "c" -> "C"
      [] c = "d" -> "D"
      [] c = "g" -> "G"
      [] OTHER -> c

Upper(s) == [i \in 1..Len(s) |-> UpperChar(s[i])]

Digits == <<"1", "2", "3", "4", "5", "6", "7", "8", "9">>

Str(n) == IF n = 0 THEN "0" ELSE Digits[n]

Number(n) == [t |-> "number", v |-> n]

String(s, n) == [t |-> "string", v |-> s, numeric |-> n]

Null == [t |-> "null"]

List(items) == [t |-> "list", v |-> items]

\* float(x): a number is taken as it is, a string is parsed (ValueError
\* when it is not a numeral), anything else is a TypeError.
Float(x) ==
    CASE x.t = "number" -> [exc |-> "none", v |-> x.v]
      [] x.t = "string" /\ x.numeric # None -> [exc |-> "none", v |-> x.numeric.v]
      [] x.t = "string" /\ x.numeric = None -> [exc |-> "ValueError", v |-> 0]
      [] OTHER -> [exc |-> "TypeError", v |-> 0]

-----------------------------------------------------------------------------
(* Response parser: first '{' to last '}' and json.loads of the slice *)

Min(S) == CHOOSE i \in S : \A j \in S : i <= j

Char(c) == [ch |-> c]

Object(d) == [ch |-> "object", val |-> d]

HasOpen(seg) == seg.ch \in {"{", "object"}

HasClose(seg) == seg.ch \in {"}", "object"}

\* '{' in response_text
ContainsOpen(text) == \E i \in 1..Len(text) : HasOpen(text[i])

\* '}' in response_text
ContainsClose(text) == \E i \in 1..Len(text) : HasClose(text[i])

\* response_text.find('{')
FindOpen(text) ==
    CHOOSE i \in 1..Len(text) :
        HasOpen(text[i]) /\ \A j \in 1..(i - 1) : ~HasOpen(text[j])

\* The first '}' where the last one is meant.
FindClose(text) ==
    CHOOSE i \in 1..Len(text) :
        HasClose(text[i]) /\ \A j \in 1..(i - 1) : ~HasClose(text[j])

\* response_text.rfind('}')
RFindClose(text) ==
    CHOOSE i \in 1..Len(text) :
        HasClose(text[i]) /\ \A j \in (i + 1)..Len(text) : ~HasClose(text[j])

\* response_text[json_start:json_end]
JsonSlice(text) ==
    LET json_start == FindOpen(text)
        json_end   == RFindClose(text)
    IN  IF json_start <= json_end THEN SubSeq(text, json_start, json_end) ELSE <<>>

\* The str of a sequence of characters.
RECURSIVE Join(_)
Join(chars) == IF chars = <<>> THEN "" ELSE Head(chars).ch \o Join(Tail(chars))

NotDecoded == [ok |-> FALSE, val |-> <<>>, next |-> 0]

\* The JSON string that opens with the quote at position i: it runs to the
\* next quote (the characters of a response text hold no escape).
ScanString(s, i) ==
    IF \A j \in (i + 1)..Len(s) : s[j].ch # "\"" THEN NotDecoded
    ELSE [ok |-> TRUE,
          val |-> String(Join(SubSeq(s, i + 1,
                    Min({j \in (i + 1)..Len(s) : s[j].ch = "\""}) - 1)), None),
          next |-> Min({j \in (i + 1)..Len(s) : s[j].ch = "\""}) + 1]

\* The JSON value, and the JSON object, that begin at position i of a text
\* of the characters { } " : and letters: a value is a string or an object,
\* an object is {} or has one member (the characters hold no comma).
RECURSIVE ScanValue(_, _)
RECURSIVE ScanObject(_, _)
ScanValue(s, i) ==
    IF i > Len(s) THEN NotDecoded
    ELSE IF s[i].ch = "\"" THEN ScanString(s, i)
    ELSE IF s[i].ch = "{" THEN ScanObject(s, i)
    ELSE NotDecoded

\* The object whose key and member value are scanned: the closing brace.
ScanClose(s, key, member) ==
    IF ~member.ok \/ member.next > Len(s) THEN NotDecoded
    ELSE IF s[member.next].ch # "}" THEN NotDecoded
    ELSE [ok |-> TRUE, val |-> (key.val.v :> member.val), next |-> member.next + 1]

\* The object whose key is scanned: the colon and the member value.
ScanMember(s, key) ==
    IF ~key.ok \/ key.next > Len(s) THEN NotDecoded
    ELSE IF s[key.next].ch # ":" THEN NotDecoded
    ELSE ScanClose(s, key, ScanValue(s, key.next + 1))

ScanObject(s, i) ==
    IF i + 1 > Len(s) THEN NotDecoded
    ELSE IF s[i + 1].ch = "}" THEN [ok |-> TRUE, val |-> <<>>, next |-> i + 2]
    ELSE IF s[i + 1].ch # "\"" THEN NotDecoded
    ELSE ScanMember(s, ScanString(s, i + 1))

\* The outcome of json.loads for what the scan of the whole slice gave.
Decoded(slice, scanned) ==
    IF scanned.ok /\ scanned.next = Len(slice) + 1
    THEN [exc |-> "none", val |-> scanned.val]
    ELSE [exc |-> "JSONDecodeError", val |-> <<>>]

\* json.loads of a slice that begins with '{' and ends with '}', or is empty:
\* one well-formed object segment decodes to its value, a slice of
\* characters is scanned, and a slice that is not one JSON object from its
\* first to its last character raises JSONDecodeError.
JsonLoads(slice) ==
    IF Len(slice) = 1 /\ slice[1].ch = "object"
    THEN [exc |-> "none", val |-> slice[1].val]
    ELSE IF slice # <<>> /\ slice[1].ch = "{"
    THEN Decoded(slice, ScanObject(slice, 1))
    ELSE [exc |-> "JSONDecodeError", val |-> <<>>]

-----------------------------------------------------------------------------
(* Evaluation engine: evaluate_exam_answers *)

\* Exceptions the inner try of evaluate_exam_answers catches.
Caught == {"JSONDecodeError", "KeyError", "ValueError"}

needs_ai_evaluation(q) == GetOr(q, "needs_ai_evaluation", FALSE)

\* The comparison without the case folding.
is_correct_case_sensitive(user_answer, correct_answer) == user_answer = correct_answer

\* user_answer.upper() == correct_answer.upper()
is_correct(user_answer, correct_answer) == Upper(user_answer) = Upper(correct_answer)

\* q_marks if is_correct else 0
mcq_marks(correct, q_marks) == IF correct THEN q_marks ELSE 0

\* A total that is assigned where it should be added to.
total_marks_assigned(total_marks, q_marks) == q_marks

\* total_marks += q_marks
add_total_marks(total_marks, q_marks) == total_marks + q_marks

\* One iteration of the per-question loop. st carries the locals
\* evaluation_data, total_marks, obtained_marks and the exception raised.
question_pass(st, question, user_answers) ==
    IF st.exc # "none" THEN st
    ELSE IF ~({"id", "type", "marks", "question"} \subseteq DOMAIN question)
    THEN [st EXCEPT !.exc = "KeyError"]
    ELSE
      LET q_id        == question.id
          q_type      == question.type
          q_marks     == question.marks
          user_answer == Strip(GetOr(user_answers, Str(q_id), <<>>))
          correct_answer == Strip(GetOr(question, "correct_answer", <<>>))
          correct     == is_correct(user_answer, correct_answer)
          marks_obtained == mcq_marks(correct, q_marks)
          mcq_entry ==
              [question_id |-> q_id, question |-> question.question,
               type |-> q_type, user_answer |-> user_answer,
               correct_answer |-> correct_answer,
               marks_obtained |-> marks_obtained, total_marks |-> q_marks,
               is_correct |-> correct]
          deferred_entry ==
              [question_id |-> q_id, question |-> question.question,
               type |-> q_type, user_answer |-> user_answer,
               sample_answer |-> GetOr(question, "sample_answer", ""),
               total_marks |-> q_marks, needs_ai_evaluation |-> TRUE]
      IN  IF q_type = "mcq" /\ correct_answer # <<>>
          THEN [st EXCEPT !.total_marks = add_total_marks(@, q_marks),
                          !.obtained_marks = @ + marks_obtained,
                          !.evaluation_data = Append(@, mcq_entry)]
          ELSE [st EXCEPT !.total_marks = add_total_marks(@, q_marks),
                          !.evaluation_data = Append(@, deferred_entry)]

RECURSIVE per_question_pass(_, _, _)
per_question_pass(st, questions, user_answers) ==
    IF questions = <<>> THEN st
    ELSE per_question_pass(question_pass(st, Head(questions), user_answers),
                           Tail(questions), user_answers)

\* Every entry taken as one to send to the grading model.
subjective_questions_all(evaluation_data, i) ==
    [k \in 1..(Len(evaluation_data) + 1 - i) |-> i + k - 1]

\* The indices of the entries collected in subjective_questions; the list
\* holds the very dicts of evaluation_data, so an index stands for the entry.
RECURSIVE subjective_questions(_, _)
subjective_questions(evaluation_data, i) ==
    IF i > Len(evaluation_data) THEN <<>>
    ELSE IF needs_ai_evaluation(evaluation_data[i])
         THEN <<i>> \o subjective_questions(evaluation_data, i + 1)
         ELSE subjective_questions(evaluation_data, i + 1)

\* An update of the first entry with this question_id, deferred or not.
update_first_any(evaluation_data, q_id, fields) ==
    LET matches == {i \in 1..Len(evaluation_data) :
                        evaluation_data[i].question_id = q_id}
    IN  IF matches = {} THEN evaluation_data
        ELSE [evaluation_data EXCEPT ![Min(matches)] = fields @@ @]

\* An update that adds the graded entry at the end of the list.
update_first_appending(evaluation_data, q_id, fields) ==
    LET matches == {i \in 1..Len(evaluation_data) :
                        /\ evaluation_data[i].question_id = q_id
                        /\ needs_ai_evaluation(evaluation_data[i])}
    IN  IF matches = {} THEN evaluation_data
        ELSE Append(evaluation_data, fields @@ evaluation_data[Min(matches)])

\* The inner loop shared by reconciliation and fallback: update the first
\* entry with this question_id that still needs AI evaluation, then break.
update_first(evaluation_data, q_id, fields) ==
    LET matches == {i \in 1..Len(evaluation_data) :
                        /\ evaluation_data[i].question_id = q_id
                        /\ needs_ai_evaluation(evaluation_data[i])}
    IN  IF matches = {} THEN evaluation_data
        ELSE [evaluation_data EXCEPT ![Min(matches)] = fields @@ @]

\* One iteration of "for eval_item in eval_result.get('evaluations', [])".
reconcile_item(st, eval_item) ==
    IF st.exc # "none" THEN st
    ELSE IF "question_id" \notin DOMAIN eval_item
    THEN [st EXCEPT !.exc = "KeyError"]
    ELSE
      LET q_id  == eval_item.question_id
          marks == Float(GetOr(eval_item, "marks_obtained", Number(0)))
          fields ==
              [marks_obtained |-> marks.v,
               feedback |-> GetOr(eval_item, "feedback", "Good attempt"),
               suggestions |-> GetOr(eval_item, "suggestions", ""),
               needs_ai_evaluation |-> FALSE]
      IN  IF marks.exc # "none" THEN [st EXCEPT !.exc = marks.exc]
          ELSE [st EXCEPT !.obtained_marks = @ + marks.v,
                          !.evaluation_data = update_first(@, q_id, fields)]

RECURSIVE reconcile(_, _)
reconcile(st, evaluations) ==
    IF evaluations = <<>> THEN st
    ELSE reconcile(reconcile_item(st, Head(evaluations)), Tail(evaluations))

\* Partial credit also for an empty answer.
fallback_marks_unconditional(q) == (q.total_marks * 6) \div 10

\* q['total_marks'] * 0.6 if q['user_answer'] else 0
fallback_marks(q) == IF q.user_answer # <<>> THEN (q.total_marks * 6) \div 10 ELSE 0

\* One iteration of "for q in subjective_questions" of a fallback.
fallback_item(st, idx, suggestions) ==
    LET q == st.evaluation_data[idx]
        fields ==
            [marks_obtained |-> fallback_marks(q),
             feedback |-> "Answer provided - partial credit given",
             suggestions |-> suggestions,
             needs_ai_evaluation |-> FALSE]
    IN  [st EXCEPT !.obtained_marks = @ + fallback_marks(q),
                   !.evaluation_data = update_first(@, q.question_id, fields)]

RECURSIVE fallback(_, _, _)
fallback(st, subjective, suggestions) ==
    IF subjective = <<>> THEN st
    ELSE fallback(fallback_item(st, Head(subjective), suggestions),
                  Tail(subjective), suggestions)

\* The handler "except (json.JSONDecodeError, KeyError, ValueError)".
except_fallback(st, subjective) ==
    fallback([st EXCEPT !.exc = "none"], subjective,
             "Please review the sample answer for improvement")

\* The else branch of "if '{' in response_text and '}' in response_text".
else_fallback(st, subjective) ==
    fallback(st, subjective, "Detailed evaluation was not available")

\* The body of the inner try for a response text that was read.
grade_text(st, subjective, response_text) ==
    IF ContainsOpen(response_text) /\ ContainsClose(response_text)
    THEN LET eval_result == JsonLoads(JsonSlice(response_text))
             evaluations == GetOr(eval_result.val, "evaluations", List(<<>>))
         IN  IF eval_result.exc # "none"
             THEN [st EXCEPT !.exc = eval_result.exc]
             ELSE IF evaluations.t # "list"
             THEN [st EXCEPT !.exc = "TypeError"]
             ELSE reconcile(st, evaluations.v)
    ELSE else_fallback(st, subjective)

\* The grading of the deferred entries: the model call, the inner try and
\* its except clause. An exception left in exc is one the clause lets pass.
grade(st, subjective, resp) ==
    LET tried ==
            CASE resp.kind = "call_error" -> [st EXCEPT !.exc = "Exception"]
              [] resp.kind = "text_error" -> [st EXCEPT !.exc = "ValueError"]
              [] OTHER -> grade_text(st, subjective, resp.text)
    IN  IF tried.exc \in Caught THEN except_fallback(tried, subjective) ELSE tried

\* (n / d) * 100, kept as an exact fraction; a division by zero raises.
DivideTimes100(n, d) ==
    IF d = 0
    THEN [exc |-> "ZeroDivisionError", num |-> 0, den |-> 1]
    ELSE [exc |-> "none", num |-> n * 100, den |-> d]

\* The percentage without the guard on total_marks.
percentage_unguarded(obtained_marks, total_marks) ==
    DivideTimes100(obtained_marks, total_marks)

\* (obtained_marks / total_marks) * 100 if total_marks > 0 else 0
percentage(obtained_marks, total_marks) ==
    IF total_marks > 0
    THEN DivideTimes100(obtained_marks, total_marks)
    ELSE [exc |-> "none", num |-> 0, den |-> 1]

\* evaluate_exam_answers(questions_data, user_answers): the returned dict,
\* or None when the outer "except Exception" is taken. resp is what the
\* grading model does if it is called.
evaluate_exam_answers(qd, user_answers, resp) ==
    IF "questions" \notin DOMAIN qd THEN None
    ELSE
      LET start  == [evaluation_data |-> <<>>, total_marks |-> 0,
                     obtained_marks |-> 0, exc |-> "none"]
          pass   == per_question_pass(start, qd.questions, user_answers)
          subjective == subjective_questions(pass.evaluation_data, 1)
          graded == IF pass.exc = "none" /\ subjective # <<>>
                    THEN grade(pass, subjective, resp)
                    ELSE pass
          pct    == percentage(graded.obtained_marks, graded.total_marks)
      IN  IF graded.exc # "none" \/ pct.exc # "none" THEN None
          ELSE [kind |-> "result",
                total_marks |-> graded.total_marks,
                obtained_marks |-> graded.obtained_marks,
                percentage |-> [num |-> pct.num, den |-> pct.den],
                evaluations |-> graded.evaluation_data]

\* The per-question pass of evaluate_exam_answers on an empty start.
first_pass(qd, user_answers) ==
    per_question_pass([evaluation_data |-> <<>>, total_marks |-> 0,
                       obtained_marks |-> 0, exc |-> "none"],
                      qd.questions, user_answers)

\* "if subjective_questions:" is reached and taken: the grading request is
\* sent to the model.
grading_requested(qd, user_answers) ==
    /\ "questions" \in DOMAIN qd
    /\ first_pass(qd, user_answers).exc = "none"
    /\ subjective_questions(first_pass(qd, user_answers).evaluation_data, 1) # <<>>

-----------------------------------------------------------------------------
(* Inputs: question sets, answer records and model responses *)

Seqs(S, n) == UNION {[1..k -> S] : k \in 0..n}

Question(id, type, marks) ==
    [id |-> id, type |-> type, question |-> "Q", marks |-> marks]

WithAnswer(q, correct_answer) == [correct_answer |-> correct_answer] @@ q

\* Questions of both scoring paths: MCQs with a correct_answer (one of them
\* padded and in lower case), MCQs without one (absent, or blank), and
\* subjective questions; ids may repeat within a set.
EvalQuestions ==
    { WithAnswer(Question(1, "mcq", 10), <<"C">>),
      WithAnswer(Question(2, "mcq", 20), <<" ", "c">>),
      Question(1, "mcq", 10),
      WithAnswer(Question(2, "mcq", 10), <<" ">>),
      Question(1, "short", 30),
      Question(2, "short", 30) }

QuestionSets == {[questions |-> qs] : qs \in Seqs(EvalQuestions, MaxQuestions)}

AnswerKeys == {"1", "2"}

AnswerTexts == {<<"c">>, <<"B">>, <<" ">>}

AnswerRecords == UNION {[K -> AnswerTexts] : K \in SUBSET AnswerKeys}

\* Items of a grading response: in range, above the total, negative, for an
\* id no question has, without question_id, with marks_obtained that is not
\* a numeral, a numeral in a string, null, or missing.
EvalItems ==
    { [question_id |-> 1, marks_obtained |-> Number(5),
       feedback |-> "Clear", suggestions |-> "Add examples"],
      [question_id |-> 2, marks_obtained |-> Number(20),
       feedback |-> "Clear", suggestions |-> "Add examples"],
      [question_id |-> 2, marks_obtained |-> Number(50)],
      [question_id |-> 1, marks_obtained |-> Number(-10)],
      [question_id |-> 9, marks_obtained |-> Number(10)],
      [marks_obtained |-> Number(10)],
      [question_id |-> 1, marks_obtained |-> String("abc", None)],
      [question_id |-> 2, marks_obtained |-> String("1.5", Number(15))],
      [question_id |-> 2, marks_obtained |-> Null],
      [question_id |-> 1] }

EvalObjects ==
    {[evaluations |-> List(items)] : items \in Seqs(EvalItems, MaxEvaluations)}
        \cup {[evaluations |-> Null], [other |-> Null]}

TextResponse(text) == [kind |-> "text", text |-> text]

CallError == [kind |-> "call_error"]

TextError == [kind |-> "text_error"]

\* Texts around one object: every arrangement of up to three segments.
Segments(d) == {Char("x"), Char("{"), Char("}"), Object(d)}

SurroundedTexts(d) == Seqs(Segments(d), 3)

CompleteObject ==
    [evaluations |-> List(<<
        [question_id |-> 1, marks_obtained |-> Number(5),
         feedback |-> "Clear", suggestions |-> "Add examples"],
        [question_id |-> 2, marks_obtained |-> Number(20),
         feedback |-> "Clear", suggestions |-> "Add examples"] >>)]

\* What the grading model can do: fail the call, return a response whose
\* text cannot be read, or return a text.
GradingResponses ==
    {CallError, TextError}
        \cup {TextResponse(<<Object(d)>>) : d \in EvalObjects}
        \cup {TextResponse(t) : t \in SurroundedTexts(CompleteObject)}

NotCalled == [kind |-> "not_called"]

\* No grade was shown in this run.
NoGrade == ""

NoResponse == [kind |-> "no_response"]

-----------------------------------------------------------------------------
(* evaluate_exam_answers applied to every input *)

InitEval ==
    /\ questions_data \in QuestionSets
    /\ exam_answers \in AnswerRecords
    /\ exam_submitted = FALSE
    /\ evaluation_result = None
    /\ clicked = "none"
    /\ form_answers = <<>>
    /\ evaluation = NotCalled
    /\ response = NoResponse
    /\ questions_text = None
    /\ notice = <<>>
    /\ distribution = None
    /\ uploaded_pattern = FALSE
    /\ display_response = NoResponse
    /\ exam_response = NoResponse
    /\ grade_shown = NoGrade
    /\ results_text = None

Evaluate ==
    /\ evaluation = NotCalled
    /\ \E resp \in GradingResponses :
          /\ evaluation' = evaluate_exam_answers(questions_data, exam_answers, resp)
          /\ response' = IF grading_requested(questions_data, exam_answers)
                          THEN resp ELSE NoResponse
    /\ UNCHANGED <<session, clicked, form_answers, questions_text, notice,
                   generation, results>>

NextEval == Evaluate

SpecEval == InitEval /\ [][NextEval]_vars

-----------------------------------------------------------------------------
(* Session: question generation *)

\* bool(d) of a dict, or of None
Truthy(d) == d # None /\ DOMAIN d # {}

\* The data of the "Load Test Data" button; an option text is cut after its
\* first word's initial.
TestData ==
    [questions |-> <<
        [id |-> 1, type |-> "mcq", question |-> "What is the capital of France?",
         options |-> << <<"A", ")", " ", "L">>, <<"B", ")", " ", "B">>,
                        <<"C", ")", " ", "P">>, <<"D", ")", " ", "M">> >>,
         correct_answer |-> <<"C">>, marks |-> 10,
         sample_answer |-> "Paris is the capital city of France."],
        [id |-> 2, type |-> "short", question |-> "Explain the concept of gravity.",
         marks |-> 30,
         sample_answer |-> "Gravity is a fundamental force of nature."] >>]

\* Objects a structured generation response can carry: question sets (one
\* with an MCQ that has no correct_answer, one without questions), the
\* empty object and an object without the 'questions' key.
ExamObjects ==
    { TestData,
      [questions |-> <<
          [id |-> 1, type |-> "mcq", question |-> "Q",
           options |-> << <<"A", ")", " ", "L">>, <<"B", ")", " ", "B">> >>,
           marks |-> 10],
          [id |-> 2, type |-> "medium", question |-> "Q", marks |-> 30] >>],
      [questions |-> <<>>],
      <<>>,
      [error |-> Null] }

ExamResponses ==
    {CallError, TextError}
        \cup {TextResponse(<<Object(d)>>) : d \in ExamObjects}
        \cup {TextResponse(t) : t \in
                { <<Char("x")>>, <<Char("{"), Char("x"), Char("}")>>,
                  <<Char("}"), Char("{")>>,
                  <<Char("x"), Object(TestData), Char("x")>>,
                  <<Object(TestData), Char("}")>> }}

DisplayResponses == {CallError, TextError, TextResponse(<<Char("x")>>)}

MsgExamData == "Exam data created successfully!"

MsgNoExamData == "Could not create structured exam data"

MsgGenerateError == "Error generating questions"

\* The inner try of generate_questions on the structured response: the
\* value stored in st.session_state.questions_data and the message shown.
parse_exam_data(exam) ==
    LET read ==
            IF exam.kind = "text_error"
            THEN [exc |-> "ValueError", val |-> <<>>]
            ELSE IF ContainsOpen(exam.text) /\ ContainsClose(exam.text)
                 THEN JsonLoads(JsonSlice(exam.text))
                 ELSE [exc |-> "ValueError", val |-> <<>>]
    IN  IF read.exc = "none"
        THEN [questions_data |-> read.val, messages |-> <<MsgExamData>>]
        ELSE [questions_data |-> None, messages |-> <<MsgNoExamData>>]

\* A generate_questions whose inner handler lets the parse failure through
\* to the outer one.
generate_questions_strict(old, display, exam) ==
    IF /\ display.kind = "text"
       /\ exam.kind # "call_error"
       /\ parse_exam_data(exam).questions_data # None
    THEN [questions_data |-> parse_exam_data(exam).questions_data,
          ret |-> [kind |-> "str", text |-> display.text],
          messages |-> <<MsgExamData>>]
    ELSE [questions_data |-> old, ret |-> None, messages |-> <<MsgGenerateError>>]

\* generate_questions: display and exam are what the model does on the two
\* calls; old is st.session_state.questions_data before the call.
generate_questions(old, display, exam) ==
    IF display.kind = "call_error" \/ exam.kind = "call_error"
    THEN [questions_data |-> old, ret |-> None, messages |-> <<MsgGenerateError>>]
    ELSE LET parsed == parse_exam_data(exam)
         IN  IF display.kind = "text_error"
             THEN [questions_data |-> parsed.questions_data, ret |-> None,
                   messages |-> parsed.messages \o <<MsgGenerateError>>]
             ELSE [questions_data |-> parsed.questions_data,
                   ret |-> [kind |-> "str", text |-> display.text],
                   messages |-> parsed.messages]

\* The five number inputs of the sidebar.
Distribution(mcq, short, medium, long, case_study) ==
    [mcq_count |-> mcq, short_count |-> short, medium_count |-> medium,
     long_count |-> long, case_study_count |-> case_study]

\* What the sidebar can hold: nothing requested, one MCQ and one short
\* question, two MCQs and one short question, or a pattern file, which
\* disables the five inputs.
Requests ==
    { [counts |-> Distribution(0, 0, 0, 0, 0), pattern |-> FALSE],
      [counts |-> Distribution(1, 1, 0, 0, 0), pattern |-> FALSE],
      [counts |-> Distribution(2, 1, 0, 0, 0), pattern |-> FALSE],
      [counts |-> Distribution(0, 0, 0, 0, 0), pattern |-> TRUE] }

\* total_questions of the page: a placeholder when a pattern is uploaded.
total_questions(counts, pattern) ==
    IF pattern
    THEN 1
    ELSE counts.mcq_count + counts.short_count + counts.medium_count
             + counts.long_count + counts.case_study_count

\* A page whose button is there whatever the sidebar holds.
can_generate_always(counts, pattern) == TRUE

\* can_generate = (total_questions > 0) or uploaded_pattern
can_generate(counts, pattern) == total_questions(counts, pattern) > 0 \/ pattern

MsgConfigure == "Please configure at least one type of question in the sidebar."

\* The Generate Questions page with a PDF uploaded: the button is rendered,
\* and can be pressed, only when can_generate holds; otherwise the page
\* shows its warning. The structured call is made only after the display
\* call returned.
generate_page(old, counts, pattern, display, exam) ==
    IF can_generate(counts, pattern)
    THEN LET out == generate_questions(old, display, exam)
         IN  [clicked |-> "generate",
              questions_data |-> out.questions_data,
              ret |-> out.ret,
              messages |-> out.messages,
              display_response |-> display,
              exam_response |-> IF display.kind = "call_error"
                                THEN NoResponse ELSE exam]
    ELSE [clicked |-> "none",
          questions_data |-> old,
          ret |-> None,
          messages |-> <<MsgConfigure>>,
          display_response |-> NoResponse,
          exam_response |-> NoResponse]

-----------------------------------------------------------------------------
(* Session: the Take Exam and View Results pages *)

\* user_answer.split(')')[0]
SplitFirst(s, c) ==
    IF \E i \in 1..Len(s) : s[i] = c
    THEN SubSeq(s, 1, Min({i \in 1..Len(s) : s[i] = c}) - 1)
    ELSE s

TextAnswers == {<<>>, <<"g">>, <<" ">>}

\* What a question's widget can hold: a radio returns one of the options
\* or nothing, a text area any text; an MCQ without options has no widget.
WidgetValues(question) ==
    IF question.type = "mcq"
    THEN {<<>>} \cup {GetOr(question, "options", <<>>)[i] :
                        i \in 1..Len(GetOr(question, "options", <<>>))}
    ELSE TextAnswers

\* One iteration of the form's loop over the questions.
collect_answer(answers, question, value) ==
    LET key == Str(question.id)
        answered ==
            IF question.type = "mcq"
            THEN value # <<>>
            ELSE Strip(value) # <<>>
        stored ==
            IF question.type = "mcq"
            THEN Strip(SplitFirst(value, ")"))
            ELSE Strip(value)
    IN  IF answered THEN (key :> stored) @@ answers ELSE answers

RECURSIVE collect_answers(_, _, _, _)
collect_answers(answers, questions, values, i) ==
    IF i > Len(questions) THEN answers
    ELSE collect_answers(collect_answer(answers, questions[i], values[i]),
                         questions, values, i + 1)

WellShaped(question) == {"id", "type", "marks", "question"} \subseteq DOMAIN question

\* The Take Exam page gets as far as its form or its buttons.
TakeExamRenders ==
    /\ Truthy(questions_data)
    /\ "questions" \in DOMAIN questions_data
    /\ \A i \in 1..Len(questions_data.questions) : WellShaped(questions_data.questions[i])

MsgNoAnswers == "Please answer at least one question before submitting."

MsgEvaluated == "Exam submitted and evaluated successfully!"

MsgEvaluationError == "Error during evaluation. Please try again."

\* A form that is never taken to be empty.
no_answers_unchecked(answers) == FALSE

\* len(form_answers) == 0
no_answers(answers) == DOMAIN answers = {}

\* A handler that stores the result and leaves the answer record as it was.
submit_exam_stale_answers(old, answers, resp) ==
    IF no_answers(answers)
    THEN [exam_answers |-> old.exam_answers, exam_submitted |-> old.exam_submitted,
          evaluation_result |-> old.evaluation_result,
          evaluation |-> NotCalled, response |-> NoResponse,
          messages |-> <<MsgNoAnswers>>]
    ELSE LET result == evaluate_exam_answers(old.questions_data, answers, resp)
         IN  [exam_answers |-> old.exam_answers,
              exam_submitted |-> IF result # None THEN TRUE ELSE old.exam_submitted,
              evaluation_result |-> IF result # None THEN result
                                    ELSE old.evaluation_result,
              evaluation |-> result,
              response |-> IF grading_requested(old.questions_data, answers)
                           THEN resp ELSE NoResponse,
              messages |-> IF result # None THEN <<MsgEvaluated>>
                           ELSE <<MsgEvaluationError>>]

\* The handler of the form's submit button: the session state and the
\* locals it leaves behind.
submit_exam(old, answers, resp) ==
    IF no_answers(answers)
    THEN [exam_answers |-> old.exam_answers, exam_submitted |-> old.exam_submitted,
          evaluation_result |-> old.evaluation_result,
          evaluation |-> NotCalled, response |-> NoResponse,
          messages |-> <<MsgNoAnswers>>]
    ELSE LET result == evaluate_exam_answers(old.questions_data, answers, resp)
         IN  IF result # None
             THEN [exam_answers |-> answers, exam_submitted |-> TRUE,
                   evaluation_result |-> result,
                   evaluation |-> result,
                   response |-> IF grading_requested(old.questions_data, answers)
                                THEN resp ELSE NoResponse,
                   messages |-> <<MsgEvaluated>>]
             ELSE [exam_answers |-> answers, exam_submitted |-> old.exam_submitted,
                   evaluation_result |-> old.evaluation_result,
                   evaluation |-> result,
                   response |-> IF grading_requested(old.questions_data, answers)
                                THEN resp ELSE NoResponse,
                   messages |-> <<MsgEvaluationError>>]

\* st.progress(value) accepts 0.0 <= value <= 1.0 only.
ProgressAccepts(pct) == 0 <= pct.num /\ pct.num <= 100 * pct.den

\* The View Results page reaches its action buttons: the summary, the
\* progress bar and the question-wise analysis raise nothing.
ViewResultsRenders ==
    /\ evaluation_result # None
    /\ ProgressAccepts(evaluation_result.percentage)
    /\ \A i \in 1..Len(evaluation_result.evaluations) :
          evaluation_result.evaluations[i].type = "mcq"
              => "correct_answer" \in DOMAIN evaluation_result.evaluations[i]

\* The grade of the results summary, with the top band open at its bound.
letter_grade_exclusive(pct) ==
    IF pct.num > 80 * pct.den THEN "A+"
    ELSE IF pct.num >= 70 * pct.den THEN "A"
    ELSE IF pct.num >= 60 * pct.den THEN "B"
    ELSE IF pct.num >= 50 * pct.den THEN "C"
    ELSE "F"

\* The if/elif chain on result['percentage'] that assigns grade.
letter_grade(pct) ==
    IF pct.num >= 80 * pct.den THEN "A+"
    ELSE IF pct.num >= 70 * pct.den THEN "A"
    ELSE IF pct.num >= 60 * pct.den THEN "B"
    ELSE IF pct.num >= 50 * pct.den THEN "C"
    ELSE "F"

\* One expander of the question-wise analysis: eval_item['correct_answer']
\* is read for every entry of type mcq.
analysis_raises(eval_item) ==
    eval_item.type = "mcq" /\ "correct_answer" \notin DOMAIN eval_item

\* One entry of the breakdown in results_text.
breakdown_line(eval_item) ==
    LET line == [question_id |-> eval_item.question_id,
                 marks_obtained |-> GetOr(eval_item, "marks_obtained", 0),
                 total_marks |-> eval_item.total_marks]
    IN  IF eval_item.type # "mcq"
        THEN [feedback |-> GetOr(eval_item, "feedback", "N/A")] @@ line
        ELSE line

\* The View Results page on a stored result: the grade of the summary, then
\* the progress bar, the analysis and the download text; exc is what stops
\* the page before its end.
view_results(result) ==
    LET shown == letter_grade(result.percentage)
    IN  IF ~ProgressAccepts(result.percentage)
        THEN [grade |-> shown, results_text |-> None, exc |-> "StreamlitAPIException"]
        ELSE IF \E i \in 1..Len(result.evaluations) : analysis_raises(result.evaluations[i])
        THEN [grade |-> shown, results_text |-> None, exc |-> "KeyError"]
        ELSE [grade |-> shown,
              results_text |->
                  [total_marks |-> result.total_marks,
                   obtained_marks |-> result.obtained_marks,
                   percentage |-> result.percentage,
                   grade |-> shown,
                   breakdown |-> [i \in 1..Len(result.evaluations) |->
                                      breakdown_line(result.evaluations[i])]],
              exc |-> "none"]

\* The grading model's behaviours the session is run against.
SessionGradingResponses ==
    { CallError, TextError,
      TextResponse(<<Char("x")>>),
      TextResponse(<<Object(CompleteObject)>>),
      TextResponse(<<Object([evaluations |-> List(<<>>)])>>),
      TextResponse(<<Object([evaluations |-> List(<<
          [question_id |-> 2, marks_obtained |-> Number(50)],
          [question_id |-> 9, marks_obtained |-> Number(10)] >>)])>>) }

-----------------------------------------------------------------------------
(* Session: state machine *)

Init ==
    /\ questions_data = None
    /\ exam_answers = <<>>
    /\ exam_submitted = FALSE
    /\ evaluation_result = None
    /\ clicked = "none"
    /\ form_answers = <<>>
    /\ evaluation = NotCalled
    /\ response = NoResponse
    /\ questions_text = None
    /\ notice = <<>>
    /\ distribution = None
    /\ uploaded_pattern = FALSE
    /\ display_response = NoResponse
    /\ exam_response = NoResponse
    /\ grade_shown = NoGrade
    /\ results_text = None

\* A run that does not render the Generate Questions page.
NoGeneration ==
    /\ distribution' = None
    /\ uploaded_pattern' = FALSE
    /\ display_response' = NoResponse
    /\ exam_response' = NoResponse

\* A run that does not get to the grade of the View Results page.
NoResults ==
    /\ grade_shown' = NoGrade
    /\ results_text' = None

\* Debug sidebar: "Load Test Data"
LoadTestData ==
    /\ questions_data' = TestData
    /\ clicked' = "load_test_data"
    /\ notice' = <<"Test data loaded!">>
    /\ form_answers' = <<>>
    /\ evaluation' = NotCalled
    /\ response' = NoResponse
    /\ questions_text' = None
    /\ NoGeneration
    /\ NoResults
    /\ UNCHANGED <<exam_answers, exam_submitted, evaluation_result>>

\* Generate Questions page with a PDF uploaded: "Generate Questions", where
\* the page offers the button.
GenerateQuestions ==
    \E request \in Requests, display \in DisplayResponses, exam \in ExamResponses :
        \E out \in {generate_page(questions_data, request.counts, request.pattern,
                                  display, exam)} :
            /\ questions_data' = out.questions_data
            /\ questions_text' = out.ret
            /\ notice' = out.messages
            /\ clicked' = out.clicked
            /\ distribution' = request.counts
            /\ uploaded_pattern' = request.pattern
            /\ display_response' = out.display_response
            /\ exam_response' = out.exam_response
            /\ form_answers' = <<>>
            /\ evaluation' = NotCalled
            /\ response' = NoResponse
            /\ NoResults
            /\ UNCHANGED <<exam_answers, exam_submitted, evaluation_result>>

\* The widgets of the form, one value per question.
FormValues(questions) ==
    {values \in [1..Len(questions) ->
                    UNION {WidgetValues(questions[i]) : i \in 1..Len(questions)}] :
        \A i \in 1..Len(questions) : values[i] \in WidgetValues(questions[i])}

\* A form that is rendered for an evaluated attempt as well.
exam_form_always == TRUE

\* if not st.session_state.exam_submitted: the exam form is rendered.
exam_form == ~exam_submitted

\* Take Exam page: "Submit Exam"
SubmitExam ==
    /\ TakeExamRenders
    /\ exam_form
    /\ \E values \in FormValues(questions_data.questions),
          resp \in SessionGradingResponses :
          \E answers \in {collect_answers(<<>>, questions_data.questions, values, 1)} :
          \E out \in {submit_exam(
                            [questions_data |-> questions_data,
                             exam_answers |-> exam_answers,
                             exam_submitted |-> exam_submitted,
                             evaluation_result |-> evaluation_result],
                            answers, resp)} :
              /\ form_answers' = answers
              /\ exam_answers' = out.exam_answers
              /\ exam_submitted' = out.exam_submitted
              /\ evaluation_result' = out.evaluation_result
              /\ evaluation' = out.evaluation
              /\ response' = out.response
              /\ notice' = out.messages
    /\ clicked' = "submit"
    /\ questions_text' = None
    /\ NoGeneration
    /\ NoResults
    /\ UNCHANGED questions_data

\* A retake that keeps the submitted answers.
retake_keeps_answers ==
    /\ exam_submitted' = FALSE
    /\ evaluation_result' = None
    /\ UNCHANGED <<questions_data, exam_answers>>

\* A retake that discards the question set with the attempt.
retake_clears_set ==
    /\ exam_submitted' = FALSE
    /\ exam_answers' = <<>>
    /\ evaluation_result' = None
    /\ questions_data' = None

\* A retake that reopens the form and keeps the stored result.
retake_keeps_result ==
    /\ exam_submitted' = FALSE
    /\ exam_answers' = <<>>
    /\ UNCHANGED <<questions_data, evaluation_result>>

\* What both "Retake Exam" buttons assign.
retake ==
    /\ exam_submitted' = FALSE
    /\ exam_answers' = <<>>
    /\ evaluation_result' = None
    /\ UNCHANGED questions_data

NoLocals ==
    /\ form_answers' = <<>>
    /\ evaluation' = NotCalled
    /\ response' = NoResponse
    /\ questions_text' = None
    /\ notice' = <<>>
    /\ NoGeneration
    /\ NoResults

\* Take Exam page: "Retake Exam"
RetakeExam ==
    /\ TakeExamRenders
    /\ exam_submitted
    /\ retake
    /\ clicked' = "retake_exam"
    /\ NoLocals

\* View Results page: "Retake Exam"
RetakeFromResults ==
    /\ ViewResultsRenders
    /\ retake
    /\ clicked' = "retake_results"
    /\ NoLocals

\* The button without the clearing of the question set.
GenerateNewQuestionsKeepsSet ==
    /\ ViewResultsRenders
    /\ retake
    /\ clicked' = "generate_new"
    /\ NoLocals

\* View Results page: "Generate New Questions"
GenerateNewQuestions ==
    /\ ViewResultsRenders
    /\ questions_data' = None
    /\ exam_submitted' = FALSE
    /\ exam_answers' = <<>>
    /\ evaluation_result' = None
    /\ clicked' = "generate_new"
    /\ NoLocals

\* View Results page, opened on a stored result.
ViewResults ==
    /\ evaluation_result # None
    /\ \E out \in {view_results(evaluation_result)} :
          /\ grade_shown' = out.grade
          /\ results_text' = out.results_text
          /\ notice' = IF out.exc = "none" THEN <<>> ELSE <<out.exc>>
    /\ clicked' = "none"
    /\ form_answers' = <<>>
    /\ evaluation' = NotCalled
    /\ response' = NoResponse
    /\ questions_text' = None
    /\ NoGeneration
    /\ UNCHANGED session

Next ==
    \/ ViewResults
    \/ LoadTestData
    \/ GenerateQuestions
    \/ SubmitExam
    \/ RetakeExam
    \/ RetakeFromResults
    \/ GenerateNewQuestions

Spec == Init /\ [][Next]_vars

-----------------------------------------------------------------------------
(* The response parser applied to texts of characters *)

Chars(s) == [i \in 1..Len(s) |-> Char(s[i])]

\* The characters of a response text: a letter, the braces, the quote and
\* the colon.
JsonChars == {"x", "{", "}", "\"", ":"}

StringContents == {<<>>, <<"x">>, <<"{">>, <<"}">>}

JsonStrings == {<<"\"">> \o c \o <<"\"">> : c \in StringContents}

\* {} and the objects of one member whose value is a string.
FlatObjects ==
    {<<"{", "}">>}
        \cup {<<"{">> \o k \o <<":">> \o v \o <<"}">> : k, v \in JsonStrings}

\* The objects of one member whose value is an object.
NestedObjects ==
    {<<"{">> \o k \o <<":">> \o o \o <<"}">> : k \in JsonStrings, o \in FlatObjects}

\* The cores of the texts: the objects, the objects cut by their first or
\* their last character, and every text of up to three characters.
Cores ==
    FlatObjects \cup NestedObjects
        \cup {Tail(o) : o \in FlatObjects \cup NestedObjects}
        \cup {SubSeq(o, 1, Len(o) - 1) : o \in FlatObjects \cup NestedObjects}
        \cup Seqs(JsonChars, 3)

\* What stands before and after a core: letters, braces and quotes.
Surrounds == Seqs({"x", "{", "}", "\""}, MaxSurround)

ParserTexts == {Chars(pre \o core \o post) : pre, post \in Surrounds, core \in Cores}

InitParse ==
    /\ questions_data = None
    /\ exam_answers = <<>>
    /\ exam_submitted = FALSE
    /\ evaluation_result = None
    /\ clicked = "generate"
    /\ form_answers = <<>>
    /\ evaluation = NotCalled
    /\ response = NoResponse
    /\ questions_text = None
    /\ notice = <<>>
    /\ distribution = Distribution(1, 1, 0, 0, 0)
    /\ uploaded_pattern = FALSE
    /\ display_response = TextResponse(<<Char("x")>>)
    /\ exam_response \in {TextResponse(t) : t \in ParserTexts}
    /\ grade_shown = NoGrade
    /\ results_text = None

\* The inner try of generate_questions on the structured response.
ParseExamData ==
    /\ notice = <<>>
    /\ \E out \in {parse_exam_data(exam_response)} :
          /\ questions_data' = out.questions_data
          /\ notice' = out.messages
    /\ UNCHANGED <<exam_answers, exam_submitted, evaluation_result, clicked,
                   form_answers, evaluation, response, questions_text,
                   generation, results>>

NextParse == ParseExamData

SpecParse == InitParse /\ [][NextParse]_vars

-----------------------------------------------------------------------------
(* The View Results page applied to stored results of every percentage *)

\* A stored result of 20 marks in total, without entries: its percentage
\* moves in steps of half a percent.
StoredResult(obtained_marks) ==
    [kind |-> "result",
     total_marks |-> 200,
     obtained_marks |-> obtained_marks,
     percentage |-> [num |-> percentage(obtained_marks, 200).num,
                     den |-> percentage(obtained_marks, 200).den],
     evaluations |-> <<>>]

InitGrade ==
    /\ questions_data = TestData
    /\ exam_answers = <<>>
    /\ exam_submitted = TRUE
    /\ evaluation_result \in {StoredResult(n) : n \in (0 - 2)..MaxObtained}
    /\ clicked = "none"
    /\ form_answers = <<>>
    /\ evaluation = NotCalled
    /\ response = NoResponse
    /\ questions_text = None
    /\ notice = <<>>
    /\ distribution = None
    /\ uploaded_pattern = FALSE
    /\ display_response = NoResponse
    /\ exam_response = NoResponse
    /\ grade_shown = NoGrade
    /\ results_text = None

NextGrade == ViewResults

SpecGrade == InitGrade /\ [][NextGrade]_vars

-----------------------------------------------------------------------------
(* Properties of evaluate_exam_answers (SpecEval) *)

Returned == evaluation # NotCalled /\ evaluation # None

Questions == questions_data.questions

Entries == evaluation.evaluations

\* The answer submitted for a question, trimmed.
Submitted(question) == Strip(GetOr(exam_answers, Str(question.id), <<>>))

\* The question's correct answer, trimmed; empty when it has none.
KnownAnswer(question) == Strip(GetOr(question, "correct_answer", <<>>))

LocallyGraded(question) == question.type = "mcq" /\ KnownAnswer(question) # <<>>

SameLetter(a, b) == a = b \/ {a, b} \in {{"a", "A"}, {"b", "B"}, {"c", "C"}, {"d", "D"}}

\* Equal up to the case of the letters.
EqualIgnoringCase(s, t) ==
    /\ Len(s) = Len(t)
    /\ \A i \in 1..Len(s) : SameLetter(s[i], t[i])

RECURSIVE Sum(_)
Sum(seq) == IF seq = <<>> THEN 0 ELSE Head(seq) + Sum(Tail(seq))


\* C1: in a returned result, the entry of every MCQ with a known
\* correct_answer has is_correct = true and marks_obtained = marks exactly
\* when the trimmed submitted answer equals the correct answer up to case;
\* any other answer, and a missing one, give is_correct = false and 0 marks.
C1_McqGradedLocally ==
    Returned =>
        \A i \in 1..Len(Questions) :
            LocallyGraded(Questions[i]) =>
                LET match == EqualIgnoringCase(Submitted(Questions[i]),
                                               KnownAnswer(Questions[i]))
                IN  /\ {"is_correct", "marks_obtained"} \subseteq DOMAIN Entries[i]
                    /\ Entries[i].is_correct = match
                    /\ Entries[i].marks_obtained = IF match THEN Questions[i].marks ELSE 0

\* Scenario B and its opposites in one result: an MCQ answered "c" against
\* "C" is correct with full marks.
C1_Witness ==
    /\ Returned
    /\ \E i \in 1..Len(Questions) :
          /\ LocallyGraded(Questions[i])
          /\ Submitted(Questions[i]) = <<"c">>
          /\ KnownAnswer(Questions[i]) = <<"C">>
          /\ Entries[i].is_correct
          /\ Entries[i].marks_obtained = 10
    /\ \E i \in 1..Len(Questions) :
          /\ LocallyGraded(Questions[i])
          /\ Submitted(Questions[i]) = <<"B">>
          /\ ~Entries[i].is_correct
          /\ Entries[i].marks_obtained = 0

\* C2: in a returned result every entry has a marks_obtained value and no
\* entry still has needs_ai_evaluation set, whatever the grading model
\* answered.
C2_NoEntryLeftDeferred ==
    Returned =>
        \A i \in 1..Len(Entries) :
            /\ "marks_obtained" \in DOMAIN Entries[i]
            /\ ~needs_ai_evaluation(Entries[i])

MarksOf(entry) == GetOr(entry, "marks_obtained", 0)

\* C3: in a returned result obtained_marks is the sum of marks_obtained
\* over the entries (an entry without the value adds nothing).
C3_ObtainedIsSumOfEntries ==
    Returned =>
        evaluation.obtained_marks =
            Sum([i \in 1..Len(Entries) |-> MarksOf(Entries[i])])

\* C4: in a returned result every entry's marks_obtained lies between 0
\* and the entry's total_marks.
C4_MarksWithinRange ==
    Returned =>
        \A i \in 1..Len(Entries) :
            "marks_obtained" \in DOMAIN Entries[i] =>
                /\ 0 <= Entries[i].marks_obtained
                /\ Entries[i].marks_obtained <= Entries[i].total_marks

\* C5: evaluation never fails outright: every call returns a result, and a
\* grading call that raises leaves every deferred entry with the fallback
\* marks and feedback.
C5_EvaluationAlwaysReturns ==
    evaluation # NotCalled =>
        /\ evaluation # None
        /\ response = CallError =>
              \A i \in 1..Len(Questions) :
                  ~LocallyGraded(Questions[i]) =>
                      /\ "marks_obtained" \in DOMAIN Entries[i]
                      /\ Entries[i].marks_obtained * 10 =
                             IF Submitted(Questions[i]) # <<>>
                             THEN 6 * Questions[i].marks ELSE 0
                      /\ Entries[i].feedback = "Answer provided - partial credit given"

\* The response text has no '{'/'}' pair, or its brace slice does not decode.
ParseFailure ==
    /\ response.kind = "text"
    /\ \/ ~ContainsOpen(response.text)
       \/ ~ContainsClose(response.text)
       \/ JsonLoads(JsonSlice(response.text)).exc # "none"

FallbackOf(question) ==
    IF Submitted(question) # <<>> THEN 6 * question.marks ELSE 0

\* Ten times what a question contributes after a parse failure: its local
\* MCQ marks, or its fallback marks.
ContributionTimesTen(question) ==
    IF LocallyGraded(question)
    THEN IF EqualIgnoringCase(Submitted(question), KnownAnswer(question))
         THEN 10 * question.marks ELSE 0
    ELSE FallbackOf(question)

\* C6: after a parse failure of the grading response a result is returned
\* in which every deferred entry has 0.6 x total_marks when the trimmed
\* answer is non-empty and 0 otherwise, with the partial-credit feedback,
\* and obtained_marks is the local MCQ marks plus these fallback marks.
C6_FallbackOnParseFailure ==
    (evaluation # NotCalled /\ ParseFailure) =>
        /\ evaluation # None
        /\ \A i \in 1..Len(Questions) :
              ~LocallyGraded(Questions[i]) =>
                  /\ {"marks_obtained", "feedback"} \subseteq DOMAIN Entries[i]
                  /\ Entries[i].marks_obtained * 10 = FallbackOf(Questions[i])
                  /\ Entries[i].feedback = "Answer provided - partial credit given"
                  /\ ~needs_ai_evaluation(Entries[i])
        /\ evaluation.obtained_marks * 10 =
              Sum([i \in 1..Len(Questions) |-> ContributionTimesTen(Questions[i])])

\* A parse failure with an answered and an unanswered deferred question
\* next to a correctly answered MCQ.
C6_Witness ==
    /\ Returned
    /\ ParseFailure
    /\ ContainsOpen(response.text)
    /\ Len(Questions) = 2
    /\ \E i, j \in 1..Len(Questions) :
          /\ ~LocallyGraded(Questions[i])
          /\ Entries[i].marks_obtained = 18
          /\ LocallyGraded(Questions[j])
          /\ Entries[j].marks_obtained = 10
    /\ evaluation.obtained_marks = 28

\* C15: in a returned result total_marks is the sum of marks over all
\* questions, answered or not, and the sum of total_marks over the entries.
C15_TotalIsSumOfMarks ==
    Returned =>
        /\ evaluation.total_marks =
               Sum([i \in 1..Len(Questions) |-> Questions[i].marks])
        /\ evaluation.total_marks =
               Sum([i \in 1..Len(Entries) |-> Entries[i].total_marks])

\* A result for two questions of 1 and 3 marks of which only the second was
\* answered.
C15_Witness ==
    /\ Returned
    /\ Len(Questions) = 2
    /\ Questions[1].marks = 10
    /\ Questions[2].marks = 30
    /\ Submitted(Questions[1]) = <<>>
    /\ Submitted(Questions[2]) # <<>>
    /\ evaluation.total_marks = 40

\* C16: in a returned result percentage is 100 x obtained_marks /
\* total_marks when total_marks is positive and 0 when it is 0, and the
\* evaluation of a question set without questions returns such a result
\* instead of failing on a division.
C16_PercentageOfTotal ==
    /\ Returned =>
          IF evaluation.total_marks > 0
          THEN evaluation.percentage.num * evaluation.total_marks =
                   100 * evaluation.obtained_marks * evaluation.percentage.den
          ELSE evaluation.total_marks = 0 /\ evaluation.percentage.num = 0
    /\ (evaluation # NotCalled /\ Questions = <<>>) =>
          /\ evaluation # None
          /\ evaluation.total_marks = 0
          /\ evaluation.percentage.num = 0

\* 2.8 of 4 marks is 70 percent.
C16_Witness ==
    /\ Returned
    /\ evaluation.total_marks = 40
    /\ evaluation.obtained_marks = 28
    /\ evaluation.percentage.num = 70 * evaluation.percentage.den

\* C23: a returned result has exactly one entry per question, in the order
\* of the questions, and entry i carries the id, the type and the marks of
\* question i; reconciliation and fallback add, remove and reorder nothing.
C23_OneEntryPerQuestion ==
    Returned =>
        /\ Len(Entries) = Len(Questions)
        /\ \A i \in 1..Len(Questions) :
              /\ {"question_id", "type", "total_marks"} \subseteq DOMAIN Entries[i]
              /\ Entries[i].question_id = Questions[i].id
              /\ Entries[i].type = Questions[i].type
              /\ Entries[i].total_marks = Questions[i].marks

\* A subjective question before an MCQ, with a response that grades the
\* second id first: the entries stay in the order of the questions.
C23_Witness ==
    /\ Returned
    /\ Len(Questions) = 2
    /\ Questions[1].type = "short" /\ Questions[1].id = 2
    /\ Questions[2].type = "mcq" /\ Questions[2].id = 1
    /\ response.kind = "text"
    /\ Len(Entries) = 2
    /\ Entries[1].question_id = 2 /\ Entries[1].type = "short"
    /\ "marks_obtained" \in DOMAIN Entries[1]
    /\ Entries[1].marks_obtained = 20 /\ Entries[1].total_marks = 30
    /\ Entries[2].question_id = 1 /\ Entries[2].type = "mcq"

\* The items of a response that is one object with a list of evaluations.
ResponseItems ==
    IF /\ response.kind = "text"
       /\ Len(response.text) = 1
       /\ response.text[1].ch = "object"
       /\ "evaluations" \in DOMAIN response.text[1].val
       /\ response.text[1].val.evaluations.t = "list"
    THEN response.text[1].val.evaluations.v
    ELSE <<>>

ItemMarks(item) == Float(GetOr(item, "marks_obtained", Number(0)))

\* The item makes the reconciliation loop raise what the fallback catches.
Aborts(item) ==
    "question_id" \notin DOMAIN item \/ ItemMarks(item).exc = "ValueError"

\* The item is the model's grade of question i: the first deferred question
\* with the item's question_id.
Grades(item, i) ==
    /\ "question_id" \in DOMAIN item
    /\ ItemMarks(item).exc = "none"
    /\ ~LocallyGraded(Questions[i])
    /\ Questions[i].id = item.question_id
    /\ \A j \in 1..(i - 1) :
          LocallyGraded(Questions[j]) \/ Questions[j].id # item.question_id

\* Reconciliation graded one deferred entry and stopped on the next item.
ReconciliationAborted ==
    /\ Len(ResponseItems) = 2
    /\ \E i \in 1..Len(Questions) : Grades(ResponseItems[1], i)
    /\ Aborts(ResponseItems[2])

\* Ten times what question i contributes after an aborted reconciliation:
\* its local MCQ marks, the model's marks if the model graded it, and the
\* fallback marks otherwise.
AbortedContributionTimesTen(i) ==
    IF LocallyGraded(Questions[i]) THEN ContributionTimesTen(Questions[i])
    ELSE IF Grades(ResponseItems[1], i) THEN 10 * ItemMarks(ResponseItems[1]).v
    ELSE FallbackOf(Questions[i])

\* C26: when reconciliation has graded an entry and then stops on an item
\* without question_id or with marks_obtained that is not a numeral, the
\* fallback gives its marks to the entries still deferred only, and every
\* entry, graded by the model or by the fallback, counts once in
\* obtained_marks.
C26_FallbackCreditsDeferredOnly ==
    (Returned /\ ReconciliationAborted) =>
        /\ \A i \in 1..Len(Questions) :
              ~LocallyGraded(Questions[i]) =>
                  /\ "marks_obtained" \in DOMAIN Entries[i]
                  /\ Entries[i].marks_obtained * 10 = AbortedContributionTimesTen(i)
        /\ evaluation.obtained_marks * 10 =
              Sum([i \in 1..Len(Questions) |-> AbortedContributionTimesTen(i)])

\* C29: in every returned result obtained_marks lies between 0 and
\* total_marks, and the percentage between 0 and 100, whatever the grading
\* model answered.
C29_ObtainedWithinTotal ==
    Returned =>
        /\ 0 <= evaluation.obtained_marks
        /\ evaluation.obtained_marks <= evaluation.total_marks
        /\ 0 <= evaluation.percentage.num
        /\ evaluation.percentage.num <= 100 * evaluation.percentage.den

\* C30: in a returned result the entry of every MCQ with a correct_answer
\* is the entry the per-question pass built: its marks_obtained, is_correct
\* and correct_answer are unchanged and nothing was added to it, also when
\* the grading response has an item with that MCQ's question_id.
C30_LocalEntriesUntouched ==
    Returned =>
        \A i \in 1..Len(Questions) :
            LocallyGraded(Questions[i]) =>
                /\ Entries[i] = first_pass(questions_data, exam_answers).evaluation_data[i]
                /\ Entries[i].correct_answer = KnownAnswer(Questions[i])
                /\ DOMAIN Entries[i] =
                      {"question_id", "question", "type", "user_answer",
                       "correct_answer", "marks_obtained", "total_marks",
                       "is_correct"}

\* A correctly answered MCQ with id 1 next to a deferred question, and a
\* response whose first item gives 0.5 marks to question_id 1.
C30_Witness ==
    /\ Returned
    /\ Len(Questions) = 2
    /\ LocallyGraded(Questions[1]) /\ Questions[1].id = 1
    /\ ~LocallyGraded(Questions[2]) /\ Questions[2].id = 2
    /\ Len(ResponseItems) = 2
    /\ "question_id" \in DOMAIN ResponseItems[1]
    /\ ResponseItems[1].question_id = 1
    /\ ItemMarks(ResponseItems[1]).v = 5
    /\ Entries[1].is_correct
    /\ Entries[1].marks_obtained = 10
    /\ evaluation.obtained_marks > 10

\* Every question is an MCQ with a correct answer.
OnlyKnownMcqs == \A i \in 1..Len(Questions) : LocallyGraded(Questions[i])

\* C22: for a question set of MCQs with a correct_answer only, no grading
\* request is sent, and the evaluation of the same question set and
\* answers gives the same outcome under every behaviour of the model.
C22_McqNeverDelegated ==
    (evaluation # NotCalled /\ OnlyKnownMcqs) =>
        /\ response = NoResponse
        /\ evaluation # None
        /\ \A resp \in GradingResponses :
              evaluate_exam_answers(questions_data, exam_answers, resp) = evaluation

\* Two MCQs, both answered correctly, graded without a request.
C22_Witness ==
    /\ Returned
    /\ Len(Questions) = 2
    /\ OnlyKnownMcqs
    /\ response = NoResponse
    /\ evaluation.obtained_marks = 30
    /\ evaluation.total_marks = 30

-----------------------------------------------------------------------------
(* Properties of the session state machine (Spec) *)

\* C7: a submit of a form with no answered question is rejected:
\* evaluate_exam_answers is not called and questions_data, exam_answers,
\* exam_submitted and evaluation_result keep their values.
C7_EmptySubmitRejected ==
    [][(clicked' = "submit" /\ form_answers' = <<>>) =>
          /\ notice' = <<MsgNoAnswers>>
          /\ evaluation' = NotCalled
          /\ response' = NoResponse
          /\ UNCHANGED session]_vars

\* A rejected submit of an attempt in progress that keeps the answers of an
\* earlier submit whose evaluation failed.
C7_Witness ==
    /\ clicked = "submit"
    /\ form_answers = <<>>
    /\ notice = <<MsgNoAnswers>>
    /\ Truthy(questions_data)
    /\ ~exam_submitted
    /\ evaluation_result = None
    /\ exam_answers # <<>>

\* C8: when generate_questions completes after an exam was evaluated,
\* whether it published a question set or cleared it, the earlier attempt
\* is discarded: evaluation_result is None, exam_submitted is False and
\* exam_answers is empty.
C8_GenerationDiscardsAttempt ==
    [][(/\ exam_submitted
        /\ evaluation_result # None
        /\ clicked' = "generate"
        /\ questions_text' # None) =>
          /\ evaluation_result' = None
          /\ exam_submitted' = FALSE
          /\ exam_answers' = <<>>]_vars

\* C9: both Retake Exam buttons act on an evaluated attempt only and leave
\* exam_submitted False, exam_answers empty, evaluation_result None and
\* questions_data as it was.
C9_RetakeReturnsToInProgress ==
    [][clicked' \in {"retake_exam", "retake_results"} =>
          /\ exam_submitted
          /\ evaluation_result # None
          /\ exam_submitted' = FALSE
          /\ exam_answers' = <<>>
          /\ evaluation_result' = None
          /\ questions_data' = questions_data]_vars

\* A retake from the results page left an attempt in progress on the same
\* question set.
C9_Witness ==
    /\ clicked = "retake_results"
    /\ TakeExamRenders
    /\ ~exam_submitted
    /\ exam_answers = <<>>
    /\ evaluation_result = None

GenerateNewEffect ==
    clicked' = "generate_new" =>
        /\ exam_submitted
        /\ evaluation_result # None
        /\ questions_data' = None
        /\ exam_answers' = <<>>
        /\ exam_submitted' = FALSE
        /\ evaluation_result' = None

NoExamWithoutQuestions ==
    ~Truthy(questions_data) => clicked' \notin {"submit", "retake_exam"}

\* C10 as stated: Generate New Questions empties the four fields, without
\* a question set no exam is taken or submitted, and after Generate New
\* Questions only a generation makes a question set available again.
C10_OnlyGenerationReopens ==
    [][/\ GenerateNewEffect
       /\ NoExamWithoutQuestions
       /\ (clicked = "generate_new" /\ Truthy(questions_data'))
              => clicked' = "generate"]_vars

\* C10 amended: as above, but a question set becomes available again by a
\* generation or by the debug Load Test Data button.
C10_GenerationOrTestDataReopens ==
    [][/\ GenerateNewEffect
       /\ NoExamWithoutQuestions
       /\ (~Truthy(questions_data) /\ Truthy(questions_data'))
              => clicked' \in {"generate", "load_test_data"}]_vars

\* Generate New Questions was pressed and left the session not started.
C10_Witness ==
    /\ clicked = "generate_new"
    /\ questions_data = None
    /\ exam_answers = <<>>
    /\ ~exam_submitted
    /\ evaluation_result = None

-----------------------------------------------------------------------------
(* Properties of question generation (Spec) *)

\* Both generation calls returned a readable text.
BothTextsRead == display_response.kind = "text" /\ exam_response.kind = "text"

\* The structured text has no '{'/'}' pair, or its brace slice does not
\* decode.
StructuredParseFailure ==
    \/ ~ContainsOpen(exam_response.text)
    \/ ~ContainsClose(exam_response.text)
    \/ JsonLoads(JsonSlice(exam_response.text)).exc # "none"

\* C11: when both generation calls return a text and the structured text
\* has no brace pair or its slice is not valid JSON, generate_questions
\* returns the display text, leaves questions_data None and shows the
\* warning, not the generation error.
C11_ParseFailureIsNotFatal ==
    (clicked = "generate" /\ BothTextsRead /\ StructuredParseFailure) =>
        /\ questions_text = [kind |-> "str", text |-> display_response.text]
        /\ questions_data = None
        /\ notice = <<MsgNoExamData>>

\* A generation with an unparseable structured text, after an exam on an
\* earlier question set was evaluated: the display text is returned and the
\* earlier set is gone.
C11_Witness ==
    /\ clicked = "generate"
    /\ BothTextsRead
    /\ StructuredParseFailure
    /\ ContainsOpen(exam_response.text)
    /\ questions_text # None
    /\ questions_data = None
    /\ exam_submitted
    /\ evaluation_result # None

\* C12: a generate_questions that returns no display text leaves
\* questions_data as it was, and questions_data changes only in a call
\* that returns the display text.
C12_GenerationAllOrNothing ==
    [][clicked' = "generate" =>
          /\ questions_text' = None => questions_data' = questions_data
          /\ questions_data' # questions_data => questions_text' # None]_vars

\* The sum of the five counts of the sidebar.
RequestedOf(counts) ==
    counts.mcq_count + counts.short_count + counts.medium_count
        + counts.long_count + counts.case_study_count

Requested == RequestedOf(distribution)

\* C19: after a generation with an explicit distribution and a structured
\* response that is well-formed JSON, a published question set has as many
\* questions as the five counts add up to.
C19_PublishedCountIsRequested ==
    (/\ clicked = "generate"
     /\ ~uploaded_pattern
     /\ BothTextsRead
     /\ ~StructuredParseFailure
     /\ Truthy(questions_data)
     /\ "questions" \in DOMAIN questions_data) =>
        Len(questions_data.questions) = Requested

\* C20: a run of the Generate Questions page with all five counts zero and
\* no pattern uploaded calls generate_questions not at all, neither model
\* call is made, and questions_data, exam_answers, exam_submitted and
\* evaluation_result keep their values.
C20_NothingRequestedNothingGenerated ==
    [][(/\ distribution' # None
        /\ RequestedOf(distribution') = 0
        /\ ~uploaded_pattern') =>
          /\ clicked' # "generate"
          /\ display_response' = NoResponse
          /\ exam_response' = NoResponse
          /\ questions_text' = None
          /\ UNCHANGED session]_vars

\* The page was run with nothing requested while a question set was
\* available: the warning is shown and the set is still there.
C20_Witness ==
    /\ distribution = Distribution(0, 0, 0, 0, 0)
    /\ ~uploaded_pattern
    /\ notice = <<MsgConfigure>>
    /\ clicked = "none"
    /\ questions_text = None
    /\ Truthy(questions_data)

-----------------------------------------------------------------------------
(* Properties of the exam attempt and its results (Spec) *)

\* C13: a submit whose evaluation returns None leaves exam_answers,
\* exam_submitted, evaluation_result and questions_data as they were.
C13_FailedEvaluationLeavesState ==
    [][(clicked' = "submit" /\ evaluation' = None) => UNCHANGED session]_vars

\* An entry of type mcq that the evaluation did not grade by comparison.
DeferredMcq(entry) == entry.type = "mcq" /\ "is_correct" \notin DOMAIN entry

\* C14: an MCQ without correct_answer is deferred by the evaluation, and
\* the View Results page shows the resulting entry and writes it to the
\* download text without raising.
C14_DeferredMcqShown ==
    (/\ grade_shown # NoGrade
     /\ ProgressAccepts(evaluation_result.percentage)
     /\ \E i \in 1..Len(evaluation_result.evaluations) :
            DeferredMcq(evaluation_result.evaluations[i])) =>
        /\ notice = <<>>
        /\ results_text # None
        /\ Len(results_text.breakdown) = Len(evaluation_result.evaluations)

-----------------------------------------------------------------------------
(* Properties of the grade (SpecGrade) *)

\* The percentage is at least n.
AtLeast(pct, n) == pct.num >= n * pct.den

\* C17: the grade shown, and written to the download text, depends on the
\* percentage only: A+ from 80, A from 70 to below 80, B from 60 to below
\* 70, C from 50 to below 60 and F below 50.
C17_GradeBands ==
    grade_shown # NoGrade =>
        LET pct == evaluation_result.percentage
        IN  /\ grade_shown = "A+" <=> AtLeast(pct, 80)
            /\ grade_shown = "A" <=> (AtLeast(pct, 70) /\ ~AtLeast(pct, 80))
            /\ grade_shown = "B" <=> (AtLeast(pct, 60) /\ ~AtLeast(pct, 70))
            /\ grade_shown = "C" <=> (AtLeast(pct, 50) /\ ~AtLeast(pct, 60))
            /\ grade_shown = "F" <=> ~AtLeast(pct, 50)
            /\ results_text # None => results_text.grade = grade_shown

\* A result of exactly 80 percent is shown and exported as A+.
C17_Witness ==
    /\ grade_shown = "A+"
    /\ evaluation_result.percentage.num = 80 * evaluation_result.percentage.den
    /\ results_text # None
    /\ results_text.grade = "A+"

-----------------------------------------------------------------------------
(* Properties of the response parser (SpecParse) *)

ParsedText == exam_response.text

Accepted == notice = <<MsgExamData>>

IsOpen(seg) == seg.ch = "{"

IsClose(seg) == seg.ch = "}"

Braces(text) == {i \in 1..Len(text) : IsOpen(text[i]) \/ IsClose(text[i])}

\* The positions i..j of the text hold a well-formed JSON object.
ObjectAt(i, j) ==
    /\ i <= j
    /\ IsOpen(ParsedText[i])
    /\ JsonLoads(SubSeq(ParsedText, i, j)).exc = "none"

\* The braces of the text outside the positions i..j.
BracesAround(i, j) == {k \in Braces(ParsedText) : k < i \/ k > j}

\* The text is accepted exactly when it has a '{' and a '}' and the slice
\* from its first '{' to its last '}' decodes, and it then yields the
\* decoded value.
AcceptsDecodableSlice ==
    /\ Accepted <=>
          \E i, j \in 1..Len(ParsedText) :
              /\ IsOpen(ParsedText[i])
              /\ \A k \in 1..(i - 1) : ~IsOpen(ParsedText[k])
              /\ IsClose(ParsedText[j])
              /\ \A k \in (j + 1)..Len(ParsedText) : ~IsClose(ParsedText[k])
              /\ ObjectAt(i, j)
    /\ ~Accepted => questions_data = None

\* A well-formed object between brace-free texts is accepted and decoded.
AcceptsSurroundedObject ==
    \A i, j \in 1..Len(ParsedText) :
        (ObjectAt(i, j) /\ BracesAround(i, j) = {}) =>
            /\ Accepted
            /\ questions_data = JsonLoads(SubSeq(ParsedText, i, j)).val

\* A text without a '{' or without a '}', or whose last '}' comes before
\* its first '{', is a parse failure.
RejectsWithoutBracePair ==
    (\/ \A i \in 1..Len(ParsedText) : ~IsOpen(ParsedText[i])
     \/ \A j \in 1..Len(ParsedText) : ~IsClose(ParsedText[j])
     \/ \A i, j \in 1..Len(ParsedText) :
            (IsOpen(ParsedText[i]) /\ IsClose(ParsedText[j])) => j < i)
        => ~Accepted

\* C18 as stated: the slice rule, the surrounded object, the texts without
\* a brace pair, and: one extra brace anywhere in the text around a
\* well-formed object is a parse failure.
C18_ExtraBraceRejected ==
    notice # <<>> =>
        /\ AcceptsDecodableSlice
        /\ AcceptsSurroundedObject
        /\ RejectsWithoutBracePair
        /\ \A i, j \in 1..Len(ParsedText) :
              (ObjectAt(i, j) /\ Cardinality(BracesAround(i, j)) = 1) => ~Accepted

\* C18 amended: the slice rule, the surrounded object, the texts without a
\* brace pair, and: one extra brace around a well-formed object is a parse
\* failure when it is a '{' before the object or a '}' after it, while a
\* '}' before the object or a '{' after it is left out of the slice and the
\* object is accepted.
C18_SliceFromFirstToLastBrace ==
    notice # <<>> =>
        /\ AcceptsDecodableSlice
        /\ AcceptsSurroundedObject
        /\ RejectsWithoutBracePair
        /\ \A i, j \in 1..Len(ParsedText) :
              (ObjectAt(i, j) /\ Cardinality(BracesAround(i, j)) = 1) =>
                  LET k == CHOOSE b \in BracesAround(i, j) : TRUE
                      inward == \/ k < i /\ IsOpen(ParsedText[k])
                                \/ k > j /\ IsClose(ParsedText[k])
                  IN  IF inward
                      THEN ~Accepted
                      ELSE /\ Accepted
                           /\ questions_data =
                                  JsonLoads(SubSeq(ParsedText, i, j)).val

\* The text x{"x":"}"}" is accepted as the object whose member x is the
\* string "}".
C18_Witness ==
    /\ ParsedText = Chars(<<"x", "{", "\"", "x", "\"", ":", "\"", "}", "\"", "}", "\"">>)
    /\ Accepted
    /\ questions_data = ("x" :> String("}", None))

\* C21: an evaluation is started only while exam_submitted is False and a
\* question set is present; evaluation_result is written only where it was
\* None, by a submit, and a stored result goes away only by a Retake or by
\* Generate New Questions, so each attempt stores at most one result.
C21_OneEvaluationPerAttempt ==
    [][/\ evaluation' # NotCalled =>
              /\ clicked' = "submit"
              /\ ~exam_submitted
              /\ Truthy(questions_data)
       /\ (evaluation_result' # None /\ evaluation_result' # evaluation_result) =>
              /\ evaluation_result = None
              /\ clicked' = "submit"
              /\ evaluation_result' = evaluation'
       /\ (evaluation_result # None /\ evaluation_result' # evaluation_result) =>
              /\ evaluation_result' = None
              /\ clicked' \in {"retake_exam", "retake_results", "generate_new"}]_vars

\* A submit stored the result of its evaluation.
C21_Witness ==
    /\ clicked = "submit"
    /\ exam_submitted
    /\ evaluation # NotCalled
    /\ evaluation # None
    /\ evaluation_result = evaluation

-----------------------------------------------------------------------------
(* Properties of the stored attempt (Spec) *)

\* C24: the question set is never changed by taking the exam: a submit,
\* whether rejected, evaluated or failed in evaluation, a Retake and the
\* results page leave questions_data as it was; it changes only by a
\* generation (which publishes a set or clears it), by Load Test Data, or
\* by Generate New Questions.
C24_QuestionSetOnlyReplaced ==
    [][/\ questions_data' # questions_data =>
              clicked' \in {"generate", "load_test_data", "generate_new"}
       /\ clicked' \in {"submit", "retake_exam", "retake_results"} =>
              questions_data' = questions_data
       /\ clicked' = "generate_new" => questions_data' = None]_vars

\* A retake after an evaluated attempt, with the question set still there.
C24_Witness ==
    /\ clicked = "retake_exam"
    /\ Truthy(questions_data)
    /\ "questions" \in DOMAIN questions_data
    /\ Len(questions_data.questions) = 2
    /\ ~exam_submitted

\* The user_answer of every entry of the stored result is the trimmed
\* answer the answer record holds for the entry's question_id.
StoredAnswersAreRecorded ==
    \A i \in 1..Len(evaluation_result.evaluations) :
        evaluation_result.evaluations[i].user_answer =
            Strip(GetOr(exam_answers,
                        Str(evaluation_result.evaluations[i].question_id), <<>>))

\* C25: while a result is stored, exam_answers changes only by a Retake or
\* by Generate New Questions, and the user_answer values of the stored
\* result are the trimmed answers of that record.
C25_AnswersFrozenAtSubmission ==
    /\ [](evaluation_result # None => StoredAnswersAreRecorded)
    /\ [][(evaluation_result # None /\ exam_answers' # exam_answers) =>
              clicked' \in {"retake_exam", "retake_results", "generate_new"}]_vars

\* A result is stored for a record with both questions answered, and a
\* later run of the results page has left the record alone.
C25_Witness ==
    /\ evaluation_result # None
    /\ DOMAIN exam_answers = {"1", "2"}
    /\ clicked = "none"
    /\ Len(evaluation_result.evaluations) = 2
    /\ evaluation_result.evaluations[1].user_answer = exam_answers["1"]
    /\ evaluation_result.evaluations[2].user_answer = exam_answers["2"]
    /\ exam_answers["2"] # <<>>

\* C27: in every reachable state exam_submitted is True exactly when a
\* result is stored in evaluation_result.
C27_SubmittedIffResultStored == exam_submitted <=> evaluation_result # None

\* A generation that failed after an evaluated attempt: the flag and the
\* result are both still there.
C27_Witness ==
    /\ clicked = "generate"
    /\ questions_data = None
    /\ exam_submitted
    /\ evaluation_result # None

\* C28: whenever questions_data is not None it is an object with a
\* 'questions' sequence whose items each carry id, type, question and
\* marks, so that the Take Exam page and evaluate_exam_answers can read it.
C28_StoredSetWellShaped ==
    questions_data # None =>
        /\ "questions" \in DOMAIN questions_data
        /\ \A i \in 1..Len(questions_data.questions) :
              WellShaped(questions_data.questions[i])

====
